---- MODULE Spec2Model ----
(***************************************************************************)
(* Model of src/main.py: the audio -> transcript -> sentences -> images    *)
(* -> video pipeline of the Streamlit script, one script run per session.  *)
(*                                                                         *)
(* Text is a sequence of one-character strings.  A file name is a pair     *)
(* <<kind, number>>; a file's content is a record naming the run that      *)
(* wrote it.  Durations are counted in ticks of 1 / 2^FracBits seconds.    *)
(***************************************************************************)
EXTENDS Integers, Sequences, FiniteSets, TLC

\* ------------------------------------------------------------------ bounds
MaxLen == 4          \* longest transcript handed to segment_text alone
MaxTranscript == 5   \* longest transcript of a whole pipeline run
MaxDuration == 4     \* longest audio, in whole seconds
MaxImages == 3       \* longest image list handed to the Assembler alone
MaxShared == 1       \* most sentences per run when two runs interleave
FracBits == 6        \* fraction bits kept by the model of a float quotient

Runs == {1, 2}

\* ------------------------------------------------------------------- text
Punctuation == {".", "!", "?"}
Whitespace == {" "}
Chars == {"a", "b"} \cup Whitespace \cup Punctuation
PipelineChars == {"a", " ", "."}

Strings(alphabet, n) == UNION {[1..k -> alphabet] : k \in 0..n}

\* str.replace(old, new) for one-character old and new
Replace(text, old, new) ==
  [k \in 1..Len(text) |-> IF text[k] = old THEN new ELSE text[k]]

\* str.split(sep) for a one-character sep: the pieces between the separators,
\* empty pieces kept; a text without sep is its own single piece
RECURSIVE Split(_, _)
Split(text, sep) ==
  IF \A k \in 1..Len(text) : text[k] # sep
  THEN <<text>>
  ELSE LET k == CHOOSE j \in 1..Len(text) :
                  text[j] = sep /\ \A m \in 1..(j - 1) : text[m] # sep
       IN <<SubSeq(text, 1, k - 1)>> \o Split(SubSeq(text, k + 1, Len(text)), sep)

RECURSIVE LStrip(_)
LStrip(s) == IF s # <<>> /\ Head(s) \in Whitespace THEN LStrip(Tail(s)) ELSE s

RECURSIVE RStrip(_)
RStrip(s) ==
  IF s # <<>> /\ s[Len(s)] \in Whitespace THEN RStrip(SubSeq(s, 1, Len(s) - 1)) ELSE s

\* str.strip()
Strip(s) == RStrip(LStrip(s))

\* [s.strip() for s in ...]
StripAll(seq) == [k \in 1..Len(seq) |-> Strip(seq[k])]

Pieces(text) == Split(Replace(Replace(text, "!", "."), "?", "."), ".")

Truthy(s) == s # <<>>

\* segment_text with the filter of empty pieces left out
segment_text_unfiltered(text) == StripAll(Pieces(text))

\* segment_text with the strip of the kept pieces left out
segment_text_unstripped(text) ==
  SelectSeq(Pieces(text), LAMBDA s : Truthy(Strip(s)))

segment_text(text) ==
  StripAll(SelectSeq(Pieces(text), LAMBDA s : Truthy(Strip(s))))

\* ------------------------------------------------------------------ files
NoName == <<"none", 0>>
StaleName == <<"stale", 0>>
UploadNames == {<<"upload", 1>>, <<"upload", 2>>}
ImageIndexes == 0..(MaxTranscript \div 2)

\* os.path.join("temp", f"image_{index}.png") with every index under one name
image_path_unindexed(index) == <<"image", 0>>

image_path(index) == <<"image", index>>

FileNames == UploadNames \cup {<<"image", k>> : k \in ImageIndexes} \cup {StaleName}

NoFile == [by |-> 0, kind |-> "none", index |-> 0]
StaleContent == [by |-> 0, kind |-> "stale", index |-> 0]
AudioContent(r) == [by |-> r, kind |-> "audio", index |-> 0]
ImageContent(r, k) == [by |-> r, kind |-> "image", index |-> k]

NoVideo == [by |-> 0, frames |-> <<>>, audio |-> NoFile]

NoUpload == [present |-> FALSE, name |-> NoName, text |-> <<>>, duration |-> 0]
Uploaded(name, text, seconds) ==
  [present |-> TRUE, name |-> name, text |-> text, duration |-> seconds]

\* os.remove that leaves the file in place
os_remove_kept(fs, f) == fs

os_remove(fs, f) == [fs EXCEPT ![f] = NoFile]

os_listdir(fs) == {f \in FileNames : fs[f] # NoFile}

\* -------------------------------------------------------------- durations
RECURSIVE Pow2(_)
Pow2(n) == IF n = 0 THEN 1 ELSE 2 * Pow2(n - 1)

Scale == Pow2(FracBits)
FadeIn == Scale \div 2

\* a / n rounded to the nearest tick, ties to even, as a float quotient is
\* rounded to the nearest representable value
TrueDiv(a, n) ==
  IF n = 0 THEN 0
  ELSE LET q == a \div n
           rem == a % n
       IN IF 2 * rem < n THEN q
          ELSE IF 2 * rem > n THEN q + 1
          ELSE IF q % 2 = 0 THEN q ELSE q + 1

\* a division that answers 0 for a zero divisor instead of raising
ZeroDivisionIgnored(total, n) == FALSE

ZeroDivisionError(total, n) == n = 0

\* the audio split over one image too many
per_image_off_by_one(total, n) == TrueDiv(total, n + 1)

per_image(total, n) == TrueDiv(total, n)

\* ------------------------------------------------------- orchestrator tests
\* "if not sentences" that never stops the run
sentences_never_empty(s) == FALSE

not_sentences(s) == s = <<>>

\* "if not image_paths" that never stops the run
image_paths_never_empty(paths) == FALSE

not_image_paths(paths) == paths = <<>>

\* a loop that leaves before its last sentence
enumerate_done_early(k, total) == k >= total - 1

enumerate_done(k, total) == k >= total

Event(ev, arg) == [ev |-> ev, arg |-> arg]

\* ------------------------------------------------------------------ state
VARIABLES
  temp,              \* the scratch directory "temp": file name -> content
  final_animation,   \* the file final_animation.mp4 of the working directory
  upload,            \* uploaded_file of each run (the run's input)
  pc,                \* where each run stands in the script
  audio_path, transcribed_text, sentences, idx, image_paths,
  audio_clip, total_duration, duration_per_image, clips,
  video_bytes, listing,
  error,             \* the message that ended the run, "" while none has
  log                \* what the run has done so far, in order

vars == <<temp, final_animation, upload, pc, audio_path, transcribed_text,
          sentences, idx, image_paths, audio_clip, total_duration,
          duration_per_image, clips, video_bytes, listing, error, log>>

EmptyTemp == [f \in FileNames |-> NoFile]

\* every per-run variable but pc, upload and the ones a harness sets
FreshLocals ==
  /\ final_animation = NoVideo
  /\ transcribed_text = [r \in Runs |-> <<>>]
  /\ sentences = [r \in Runs |-> <<>>]
  /\ idx = [r \in Runs |-> 0]
  /\ audio_clip = [r \in Runs |-> NoFile]
  /\ total_duration = [r \in Runs |-> 0]
  /\ duration_per_image = [r \in Runs |-> 0]
  /\ clips = [r \in Runs |-> <<>>]
  /\ video_bytes = [r \in Runs |-> NoVideo]
  /\ listing = [r \in Runs |-> {}]
  /\ error = [r \in Runs |-> ""]
  /\ log = [r \in Runs |-> <<>>]

\* one session presses the button; "temp" may hold a file left by an earlier run
Init ==
  /\ \E up \in {NoUpload} \cup
               {Uploaded(<<"upload", 1>>, t, d) :
                  t \in Strings(PipelineChars, MaxTranscript), d \in 0..MaxDuration} :
       upload = [r \in Runs |-> IF r = 1 THEN up ELSE NoUpload]
  /\ \E stale \in {NoFile, StaleContent} : temp = [EmptyTemp EXCEPT ![StaleName] = stale]
  /\ pc = [r \in Runs |-> IF r = 1 THEN "start" ELSE "idle"]
  /\ audio_path = [r \in Runs |-> NoName]
  /\ image_paths = [r \in Runs |-> <<>>]
  /\ FreshLocals

\* ---------------------------------------------------------------- actions
Goto(r, label) == pc' = [pc EXCEPT ![r] = label]
Logged(r, ev, arg) == log' = [log EXCEPT ![r] = Append(@, Event(ev, arg))]

\* st.stop() after st.error(message), or an exception no handler catches: the
\* script run ends where it stands
Ends(r, label, message) ==
  /\ Goto(r, label)
  /\ error' = [error EXCEPT ![r] = message]

\* lines 115-120 and 180-181: the button is pressed; the upload is saved in "temp"
Start(r) ==
  /\ pc[r] = "start"
  /\ IF upload[r].present
     THEN /\ temp' = [temp EXCEPT ![upload[r].name] = AudioContent(r)]
          /\ audio_path' = [audio_path EXCEPT ![r] = upload[r].name]
          /\ Goto(r, "transcribe")
          /\ UNCHANGED error
     ELSE /\ Ends(r, "warned", "no upload")
          /\ UNCHANGED <<temp, audio_path>>
  /\ UNCHANGED <<final_animation, upload, transcribed_text, sentences, idx,
                 image_paths, audio_clip, total_duration, duration_per_image,
                 clips, video_bytes, listing, log>>

\* lines 127 and 30-36: transcribe_audio opens the saved file and returns what
\* the service hears in it; the service may fail
Transcribe(r) ==
  /\ pc[r] = "transcribe"
  /\ \E answered \in BOOLEAN :
       LET heard == temp[audio_path[r]] IN
       IF heard = NoFile
       THEN /\ Ends(r, "crashed", "FileNotFoundError")
            /\ UNCHANGED <<transcribed_text, log>>
       ELSE IF ~answered
       THEN /\ Ends(r, "crashed", "APIError")
            /\ UNCHANGED <<transcribed_text, log>>
       ELSE /\ transcribed_text' = [transcribed_text EXCEPT ![r] = upload[heard.by].text]
            /\ Logged(r, "transcribe", 0)
            /\ Goto(r, "segment")
            /\ UNCHANGED error
  /\ UNCHANGED <<temp, final_animation, upload, audio_path, sentences, idx,
                 image_paths, audio_clip, total_duration, duration_per_image,
                 clips, video_bytes, listing>>

\* lines 131-138: segment_text, the empty-segmentation guard, the empty list
Segment(r) ==
  /\ pc[r] = "segment"
  /\ sentences' = [sentences EXCEPT ![r] = segment_text(transcribed_text[r])]
  /\ Logged(r, "segment", 0)
  /\ IF not_sentences(sentences'[r])
     THEN /\ Ends(r, "stopped", "no sentences")
          /\ UNCHANGED <<idx, image_paths>>
     ELSE /\ idx' = [idx EXCEPT ![r] = 0]
          /\ image_paths' = [image_paths EXCEPT ![r] = <<>>]
          /\ Goto(r, "loop")
          /\ UNCHANGED error
  /\ UNCHANGED <<temp, final_animation, upload, audio_path, transcribed_text,
                 audio_clip, total_duration, duration_per_image, clips,
                 video_bytes, listing>>

\* lines 139-145 and 57-64: the loop takes sentence idx and asks for its image
Request(r) ==
  /\ pc[r] = "loop"
  /\ ~enumerate_done(idx[r], Len(sentences[r]))
  /\ Logged(r, "request", idx[r])
  /\ Goto(r, "generate")
  /\ UNCHANGED <<temp, final_animation, upload, audio_path, transcribed_text,
                 sentences, idx, image_paths, audio_clip, total_duration,
                 duration_per_image, clips, video_bytes, listing, error>>

\* lines 65-74 and 146-147: the image is written under its index and its path
\* kept, or the request failed, None came back and nothing is kept
Respond(r) ==
  /\ pc[r] = "generate"
  /\ \E generated \in BOOLEAN :
       LET path == IF generated THEN image_path(idx[r]) ELSE NoName IN
       /\ temp' = IF generated
                  THEN [temp EXCEPT ![path] = ImageContent(r, idx[r])]
                  ELSE temp
       /\ image_paths' = IF path # NoName
                         THEN [image_paths EXCEPT ![r] = Append(@, path)]
                         ELSE image_paths
       /\ Logged(r, IF generated THEN "saved" ELSE "failed", idx[r])
  /\ idx' = [idx EXCEPT ![r] = @ + 1]
  /\ Goto(r, "loop")
  /\ UNCHANGED <<final_animation, upload, audio_path, transcribed_text, sentences,
                 audio_clip, total_duration, duration_per_image, clips,
                 video_bytes, listing, error>>

\* lines 149-154: the loop is over; the all-failed guard
CheckImages(r) ==
  /\ pc[r] = "loop"
  /\ enumerate_done(idx[r], Len(sentences[r]))
  /\ IF not_image_paths(image_paths[r])
     THEN Ends(r, "stopped", "no images")
     ELSE Goto(r, "assemble") /\ UNCHANGED error
  /\ UNCHANGED <<temp, final_animation, upload, audio_path, transcribed_text,
                 sentences, idx, image_paths, audio_clip, total_duration,
                 duration_per_image, clips, video_bytes, listing, log>>

\* lines 155 and 77-79: create_video_from_images is entered; the audio is loaded
AsmLoadAudio(r) ==
  /\ pc[r] = "assemble"
  /\ Logged(r, "assemble", Len(image_paths[r]))
  /\ LET audio == temp[audio_path[r]] IN
     IF audio = NoFile
     THEN /\ Ends(r, "crashed", "FileNotFoundError")
          /\ UNCHANGED <<audio_clip, total_duration>>
     ELSE /\ audio_clip' = [audio_clip EXCEPT ![r] = audio]
          /\ total_duration' = [total_duration EXCEPT ![r] = upload[audio.by].duration * Scale]
          /\ Goto(r, "asm_divide")
          /\ UNCHANGED error
  /\ UNCHANGED <<temp, final_animation, upload, audio_path, transcribed_text,
                 sentences, idx, image_paths, duration_per_image, clips,
                 video_bytes, listing>>

\* lines 80-82: the time each image is shown
AsmDivide(r) ==
  /\ pc[r] = "asm_divide"
  /\ IF ZeroDivisionError(total_duration[r], Len(image_paths[r]))
     THEN /\ Ends(r, "crashed", "ZeroDivisionError")
          /\ UNCHANGED <<duration_per_image, clips>>
     ELSE /\ duration_per_image' = [duration_per_image EXCEPT ![r] =
                                      per_image(total_duration[r], Len(image_paths[r]))]
          /\ clips' = [clips EXCEPT ![r] = <<>>]
          /\ Goto(r, "asm_clip")
          /\ UNCHANGED error
  /\ UNCHANGED <<temp, final_animation, upload, audio_path, transcribed_text,
                 sentences, idx, image_paths, audio_clip, total_duration,
                 video_bytes, listing, log>>

\* lines 83-88: the next image is read and becomes a clip with a fade-in
AsmClip(r) ==
  /\ pc[r] = "asm_clip"
  /\ Len(clips[r]) < Len(image_paths[r])
  /\ LET image == temp[image_paths[r][Len(clips[r]) + 1]] IN
     IF image = NoFile
     THEN /\ Ends(r, "crashed", "FileNotFoundError")
          /\ UNCHANGED clips
     ELSE /\ clips' = [clips EXCEPT ![r] =
                         Append(@, [image |-> image,
                                    duration |-> duration_per_image[r],
                                    fadein |-> FadeIn])]
          /\ UNCHANGED <<pc, error>>
  /\ UNCHANGED <<temp, final_animation, upload, audio_path, transcribed_text,
                 sentences, idx, image_paths, audio_clip, total_duration,
                 duration_per_image, video_bytes, listing, log>>

\* lines 90-97: the clips are concatenated, the audio set, the video encoded
AsmWrite(r) ==
  /\ pc[r] = "asm_clip"
  /\ Len(clips[r]) = Len(image_paths[r])
  /\ Logged(r, "encode", Len(clips[r]))
  /\ final_animation' = [by |-> r, frames |-> clips[r], audio |-> audio_clip[r]]
  /\ Goto(r, "show")
  /\ UNCHANGED <<temp, upload, audio_path, transcribed_text, sentences, idx,
                 image_paths, audio_clip, total_duration, duration_per_image,
                 clips, video_bytes, listing, error>>

\* lines 158-174: the video file is read back and offered
Show(r) ==
  /\ pc[r] = "show"
  /\ video_bytes' = [video_bytes EXCEPT ![r] = final_animation]
  /\ Goto(r, "listdir")
  /\ UNCHANGED <<temp, final_animation, upload, audio_path, transcribed_text,
                 sentences, idx, image_paths, audio_clip, total_duration,
                 duration_per_image, clips, listing, error, log>>

\* line 177: os.listdir("temp")
ListDir(r) ==
  /\ pc[r] = "listdir"
  /\ listing' = [listing EXCEPT ![r] = os_listdir(temp)]
  /\ Logged(r, "cleanup", Cardinality(os_listdir(temp)))
  /\ Goto(r, "remove")
  /\ UNCHANGED <<temp, final_animation, upload, audio_path, transcribed_text,
                 sentences, idx, image_paths, audio_clip, total_duration,
                 duration_per_image, clips, video_bytes, error>>

\* lines 177-178: the next listed file, in the order os.listdir gave (any), is
\* removed; os.remove raises if it is no longer there; after the last the run ends
Remove(r) ==
  /\ pc[r] = "remove"
  /\ IF listing[r] = {}
     THEN /\ Goto(r, "done")
          /\ UNCHANGED <<temp, listing, error>>
     ELSE \E f \in listing[r] :
            IF temp[f] = NoFile
            THEN /\ Ends(r, "crashed", "FileNotFoundError")
                 /\ UNCHANGED <<temp, listing>>
            ELSE /\ temp' = os_remove(temp, f)
                 /\ listing' = [listing EXCEPT ![r] = @ \ {f}]
                 /\ UNCHANGED <<pc, error>>
  /\ UNCHANGED <<final_animation, upload, audio_path, transcribed_text, sentences,
                 idx, image_paths, audio_clip, total_duration, duration_per_image,
                 clips, video_bytes, log>>

Step(r) ==
  \/ Start(r) \/ Transcribe(r) \/ Segment(r)
  \/ Request(r) \/ Respond(r) \/ CheckImages(r)
  \/ AsmLoadAudio(r) \/ AsmDivide(r) \/ AsmClip(r) \/ AsmWrite(r)
  \/ Show(r) \/ ListDir(r) \/ Remove(r)

Next == \E r \in Runs : Step(r)

Spec == Init /\ [][Next]_vars

\* ------------------------------------------------------------- other runs
\* segment_text on its own: a run whose upload was saved and transcribed, the
\* service having answered any text over Chars
InitSeg ==
  /\ \E t \in Strings(Chars, MaxLen) :
       /\ upload = [r \in Runs |-> IF r = 1 THEN Uploaded(<<"upload", 1>>, t, 0)
                                          ELSE NoUpload]
       /\ transcribed_text = [r \in Runs |-> IF r = 1 THEN t ELSE <<>>]
  /\ temp = [EmptyTemp EXCEPT ![<<"upload", 1>>] = AudioContent(1)]
  /\ final_animation = NoVideo
  /\ pc = [r \in Runs |-> IF r = 1 THEN "segment" ELSE "idle"]
  /\ audio_path = [r \in Runs |-> IF r = 1 THEN <<"upload", 1>> ELSE NoName]
  /\ sentences = [r \in Runs |-> <<>>]
  /\ idx = [r \in Runs |-> 0]
  /\ image_paths = [r \in Runs |-> <<>>]
  /\ audio_clip = [r \in Runs |-> NoFile]
  /\ total_duration = [r \in Runs |-> 0]
  /\ duration_per_image = [r \in Runs |-> 0]
  /\ clips = [r \in Runs |-> <<>>]
  /\ video_bytes = [r \in Runs |-> NoVideo]
  /\ listing = [r \in Runs |-> {}]
  /\ error = [r \in Runs |-> ""]
  /\ log = [r \in Runs |-> IF r = 1 THEN <<Event("transcribe", 0)>> ELSE <<>>]

NextSeg == \E r \in Runs : Segment(r)

SpecSeg == InitSeg /\ [][NextSeg]_vars

\* create_video_from_images on its own: called with any list of at most
\* MaxImages paths of images present in "temp", the empty list included, and
\* the path of an audio file of any whole number of seconds, or of none
AsmImageNames == {image_path(0), image_path(1)}

InitAsm ==
  /\ \E d \in 0..MaxDuration :
       upload = [r \in Runs |-> IF r = 1 THEN Uploaded(<<"upload", 1>>, <<>>, d)
                                        ELSE NoUpload]
  /\ \E paths \in Strings(AsmImageNames, MaxImages) :
       image_paths = [r \in Runs |-> IF r = 1 THEN paths ELSE <<>>]
  /\ \E audio \in {AudioContent(1), NoFile} :
       temp = [f \in FileNames |->
                 IF f = <<"upload", 1>> THEN audio
                 ELSE IF f \in AsmImageNames THEN ImageContent(1, f[2])
                 ELSE NoFile]
  /\ pc = [r \in Runs |-> IF r = 1 THEN "assemble" ELSE "idle"]
  /\ audio_path = [r \in Runs |-> IF r = 1 THEN <<"upload", 1>> ELSE NoName]
  /\ FreshLocals

NextAsm ==
  \E r \in Runs : AsmLoadAudio(r) \/ AsmDivide(r) \/ AsmClip(r) \/ AsmWrite(r)

SpecAsm == InitAsm /\ [][NextAsm]_vars

\* two sessions press the button while "temp" is empty; each uploads an audio of
\* at most MaxShared sentences, under the same file name or under two names
RECURSIVE Sentences(_)
Sentences(n) == IF n = 0 THEN <<>> ELSE <<"a", ".">> \o Sentences(n - 1)

SharedTexts == {Sentences(n) : n \in 1..MaxShared}

InitTwo ==
  /\ \E t1 \in SharedTexts, t2 \in SharedTexts, n2 \in UploadNames :
       upload = [r \in Runs |-> IF r = 1 THEN Uploaded(<<"upload", 1>>, t1, 2)
                                        ELSE Uploaded(n2, t2, 2)]
  /\ temp = EmptyTemp
  /\ pc = [r \in Runs |-> "start"]
  /\ audio_path = [r \in Runs |-> NoName]
  /\ image_paths = [r \in Runs |-> <<>>]
  /\ FreshLocals

SpecTwo == InitTwo /\ [][Next]_vars

\* ----------------------------------------------------------- observations
Did(r, ev) == \E k \in 1..Len(log[r]) : log[r][k].ev = ev
ArgsOf(r, ev) == {log[r][k].arg : k \in {j \in 1..Len(log[r]) : log[r][j].ev = ev}}
Range(seq) == {seq[k] : k \in 1..Len(seq)}

RECURSIVE Ascending(_)
Ascending(S) ==
  IF S = {} THEN <<>>
  ELSE LET least == CHOOSE x \in S : \A y \in S : x <= y
       IN <<least>> \o Ascending(S \ {least})

RECURSIVE SumDurations(_)
SumDurations(frames) ==
  IF frames = <<>> THEN 0 ELSE Head(frames).duration + SumDurations(Tail(frames))

HasPunctuation(text) == \E k \in 1..Len(text) : text[k] \in Punctuation
HasContent(text) == \E k \in 1..Len(text) : text[k] \notin Punctuation \cup Whitespace

\* every request of the run has been made and every one failed
AllFailed(r) ==
  /\ Did(r, "segment")
  /\ sentences[r] # <<>>
  /\ ArgsOf(r, "failed") = 0..(Len(sentences[r]) - 1)

\* ------------------------------------------------------------------ claims

\* C1: in a run where every image request fails for every sentence, the run
\* stops with the all-failed error and create_video_from_images is never entered.
C1_AllFailedStops ==
  \A r \in Runs :
    AllFailed(r) =>
      /\ pc[r] \in {"loop", "stopped"}
      /\ pc[r] = "stopped" => error[r] = "no images"
      /\ ~Did(r, "assemble")
      /\ ~Did(r, "encode")
      /\ final_animation.by # r

C1_Witness ==
  /\ AllFailed(1)
  /\ Len(sentences[1]) >= 2
  /\ pc[1] = "stopped"
  /\ error[1] = "no images"

\* C2: when k of the n sentences get an image, 1 <= k < n, the Assembler is given
\* exactly the k paths image_<i>.png of the sentences that succeeded, in
\* increasing index order, none of a failed sentence, none twice.
C2_AssemblerReceivesSucceeded ==
  \A r \in Runs :
    LET ok == ArgsOf(r, "saved")
        k == Cardinality(ok)
    IN (Did(r, "assemble") /\ 1 <= k /\ k < Len(sentences[r])) =>
         /\ Len(image_paths[r]) = k
         /\ image_paths[r] = [j \in 1..k |-> <<"image", Ascending(ok)[j]>>]
         /\ \A i \in ArgsOf(r, "failed") : <<"image", i>> \notin Range(image_paths[r])
         /\ \A a, b \in 1..k : a < b => image_paths[r][a][2] < image_paths[r][b][2]

C2_Witness ==
  /\ Did(1, "assemble")
  /\ Len(sentences[1]) = 3
  /\ ArgsOf(1, "saved") = {0, 2}
  /\ ArgsOf(1, "failed") = {1}
  /\ image_paths[1] = << <<"image", 0>>, <<"image", 2>> >>

\* C3 as stated: for every transcript with at least one '.', '!' or '?',
\* segment_text gives a non-empty sequence whose elements are non-empty after
\* trimming.
C3_Original ==
  \A r \in Runs :
    (Did(r, "segment") /\ HasPunctuation(transcribed_text[r])) =>
      /\ sentences[r] # <<>>
      /\ \A k \in 1..Len(sentences[r]) : Strip(sentences[r][k]) # <<>>

\* C3 amended: for every transcript with at least one character that is neither
\* whitespace nor '.', '!' or '?', segment_text gives a non-empty sequence, and
\* for every transcript every element of the result is non-empty after trimming.
C3_Amended ==
  \A r \in Runs :
    Did(r, "segment") =>
      /\ HasContent(transcribed_text[r]) => sentences[r] # <<>>
      /\ \A k \in 1..Len(sentences[r]) : Strip(sentences[r][k]) # <<>>

C3_Witness ==
  /\ Did(1, "segment")
  /\ HasPunctuation(transcribed_text[1])
  /\ HasContent(transcribed_text[1])
  /\ Len(sentences[1]) = 2
  /\ transcribed_text[1][1] \in Punctuation

\* the transcript is s + "." for an s without '.', '!' and '?'
OneSentenceInput(text) ==
  /\ text # <<>>
  /\ text[Len(text)] = "."
  /\ \A k \in 1..(Len(text) - 1) : text[k] \notin Punctuation

Body(text) == SubSeq(text, 1, Len(text) - 1)

\* C4 as stated: for every s without '.', '!' and '?', segment_text(s + ".")
\* is exactly <<s>>.
C4_Original ==
  \A r \in Runs :
    (Did(r, "segment") /\ OneSentenceInput(transcribed_text[r])) =>
      sentences[r] = <<Body(transcribed_text[r])>>

\* C4 amended: for every s without '.', '!' and '?', segment_text(s + ".") is
\* <<s trimmed>> when s has a character that is not whitespace (so <<s>> when s
\* is non-empty with no whitespace at either end), and empty otherwise.
C4_Amended ==
  \A r \in Runs :
    (Did(r, "segment") /\ OneSentenceInput(transcribed_text[r])) =>
      LET s == Body(transcribed_text[r]) IN
      /\ HasContent(s) => sentences[r] = <<Strip(s)>>
      /\ ~HasContent(s) => sentences[r] = <<>>
      /\ (s # <<>> /\ s[1] \notin Whitespace /\ s[Len(s)] \notin Whitespace) =>
           sentences[r] = <<s>>

C4_Witness ==
  /\ Did(1, "segment")
  /\ transcribed_text[1] = <<" ", "a", "b", ".">>
  /\ sentences[1] = <<(<<"a", "b">>)>>

\* C5: create_video_from_images called with an empty list fails, and fails before
\* write_videofile is attempted: no video is written.
C5_EmptyListFailsBeforeEncoding ==
  \A r \in Runs :
    (Did(r, "assemble") /\ image_paths[r] = <<>>) =>
      /\ pc[r] \in {"asm_divide", "crashed"}
      /\ pc[r] = "crashed" => error[r] \in {"ZeroDivisionError", "FileNotFoundError"}
      /\ ~Did(r, "encode")
      /\ final_animation = NoVideo

C5_Witness ==
  /\ Did(1, "assemble")
  /\ image_paths[1] = <<>>
  /\ pc[1] = "crashed"
  /\ error[1] = "ZeroDivisionError"
  /\ final_animation = NoVideo

\* the whole seconds of the audio the run's Assembler loaded
Seconds(r) == upload[audio_clip[r].by].duration

\* C6: with n >= 1 images and an audio of D whole seconds, n dividing D, every
\* clip is shown D/n seconds exactly, and the clips of the video add up to D.
C6_EqualExactDurations ==
  \A r \in Runs :
    LET n == Len(image_paths[r]) IN
    (pc[r] \in {"asm_clip", "show"} /\ n >= 1 /\ Seconds(r) % n = 0) =>
      /\ \A k \in 1..Len(clips[r]) :
           /\ clips[r][k].duration * n = Seconds(r) * Scale
           /\ clips[r][k].duration = (Seconds(r) \div n) * Scale
      /\ pc[r] = "show" =>
           /\ final_animation.by = r
           /\ Len(final_animation.frames) = n
           /\ \A k \in 1..n : final_animation.frames[k].duration * n = Seconds(r) * Scale
           /\ SumDurations(final_animation.frames) = Seconds(r) * Scale

C6_Witness ==
  /\ pc[1] = "show"
  /\ Len(image_paths[1]) = 2
  /\ Seconds(1) = 4
  /\ Len(final_animation.frames) = 2
  /\ \A k \in 1..2 : final_animation.frames[k].duration = 2 * Scale

\* C7: in every run that produces the video, the cleanup deletes every file of
\* "temp", so the directory is empty when the run is over.
\* Stated of the step that ends the run: the last step of its sweep, or the
\* os.remove that raises.
C7_TempEmptyWhenRunEnds ==
  [][\A r \in Runs :
       (Did(r, "encode") /\ pc[r] = "remove" /\ pc'[r] \in {"done", "crashed"}) =>
         os_listdir(temp') = {}]_vars

\* C8: when segment_text gives no sentence the run stops with the "no
\* sentences" error: no image is requested, the Assembler is not entered, the
\* cleanup does not run (the saved audio stays in "temp").
C8_EmptySegmentationStops ==
  \A r \in Runs :
    (Did(r, "segment") /\ sentences[r] = <<>>) =>
      /\ pc[r] = "stopped"
      /\ error[r] = "no sentences"
      /\ ~Did(r, "request")
      /\ ~Did(r, "assemble")
      /\ ~Did(r, "encode")
      /\ ~Did(r, "cleanup")
      /\ temp[audio_path[r]] = AudioContent(r)

C8_Witness ==
  /\ Did(1, "segment")
  /\ HasPunctuation(transcribed_text[1])
  /\ sentences[1] = <<>>
  /\ pc[1] = "stopped"
  /\ error[1] = "no sentences"

\* the event a run may log at place k when it has n sentences
Expected(k, n, e) ==
  IF k = 1 THEN e = Event("transcribe", 0)
  ELSE IF k = 2 THEN e = Event("segment", 0)
  ELSE IF k <= 2 + 2 * n
  THEN IF k % 2 = 1
       THEN e = Event("request", (k - 3) \div 2)
       ELSE e \in {Event("saved", (k - 4) \div 2), Event("failed", (k - 4) \div 2)}
  ELSE IF k = 3 + 2 * n THEN e.ev = "assemble"
  ELSE IF k = 4 + 2 * n THEN e.ev = "encode"
  ELSE IF k = 5 + 2 * n THEN e.ev = "cleanup"
  ELSE FALSE

\* C9: the stages of a run happen in order, in one pass: the transcription, the
\* segmentation, then for each sentence in index order one request followed by
\* its result (never a second request for a sentence), then at most one call of
\* the Assembler, after the result of the last sentence.
C9_StagesInOrder ==
  \A r \in Runs :
    \A k \in 1..Len(log[r]) : Expected(k, Len(sentences[r]), log[r][k])

C9_Witness ==
  /\ Did(1, "encode")
  /\ Len(sentences[1]) = 3
  /\ ArgsOf(1, "failed") = {1}
  /\ Len(log[1]) = 10

\* run r wrote file f and has not entered its Assembler yet
Pending(r, f) ==
  /\ pc[r] \in {"transcribe", "segment", "loop", "generate", "assemble"}
  /\ f = audio_path[r] \/ f \in Range(image_paths[r])

Mine(r, f) == IF f = audio_path[r] THEN AudioContent(r) ELSE ImageContent(r, f[2])

\* this step is run o's sweep taking f from its listing
Sweeps(o, f) ==
  /\ pc[o] = "remove"
  /\ f \in listing[o]
  /\ listing'[o] = listing[o] \ {f}

\* this step is run o saving its upload, or its generated image, under name f
Writes(o, f) ==
  \/ pc[o] = "start" /\ pc'[o] = "transcribe" /\ f = upload[o].name
  \/ /\ pc[o] = "generate"
     /\ f = <<"image", idx[o]>>
     /\ Len(image_paths'[o]) > Len(image_paths[o])

\* C10: two runs over the same "temp" are not isolated: a file a run wrote and
\* has not yet given to its Assembler is lost exactly when the other run's sweep
\* takes it or the other run saves a file of the same name over it, and nothing
\* in the code keeps either from happening.
C10_NoIsolation ==
  [][\A r \in Runs : \A f \in FileNames :
       (Pending(r, f) /\ temp[f] = Mine(r, f)) =>
         ((temp'[f] # Mine(r, f)) <=>
            \E o \in Runs \ {r} : Sweeps(o, f) \/ Writes(o, f))]_vars

\* a run still before its Assembler whose audio the other run's sweep has
\* deleted and whose image_0.png the other run has overwritten
C10_Witness ==
  \E r \in Runs : \E o \in Runs \ {r} :
    /\ Pending(r, audio_path[r])
    /\ <<"image", 0>> \in Range(image_paths[r])
    /\ audio_path[r] # audio_path[o]
    /\ temp[audio_path[r]] = NoFile
    /\ temp[<<"image", 0>>] = ImageContent(o, 0)
    /\ pc[o] = "remove"

====
